---- MODULE Spec2Model ----
(***************************************************************************)
(* A model of serial_scope.py: the acquisition thread (SerialThread.run),  *)
(* which resynchronises a byte stream into 40-byte frames and decodes      *)
(* them, and the window (MainWindow), which collects the decoded samples   *)
(* and folds them into four ring buffers, a raw-hex display and a log.     *)
(***************************************************************************)
EXTENDS Integers, Sequences, FiniteSets, TLC

(***************************************************************************)
(* Program constants.                                                      *)
(***************************************************************************)
FRAME_LEN == 40

SENTINEL == 170

plot_len == 1000

DISPLAY_FRAMES == 5

\* FREQ_G_MAP: the four presets of the frequency combo box.
FREQ_G_MAP == [f \in {"2KHz", "1KHz", "500Hz", "250Hz"} |->
                 CASE f = "2KHz" -> 0 [] f = "1KHz" -> 1
                   [] f = "500Hz" -> 2 [] f = "250Hz" -> 3]

(***************************************************************************)
(* Bounds of the model.                                                    *)
(***************************************************************************)
\* reads of the serial port by the acquisition thread, in SpecSync
MaxReads == 3

\* reads of the serial port in SpecCoeff
MaxCoeffReads == 1

\* reads of the serial port in SpecHandoff
MaxHandoffReads == 3

\* reads of the serial port in SpecFail
MaxFailReads == 2

\* blocks on the wire and reads of the serial port in SpecBlocks
MaxBlocks == 3

MaxBlockReads == 4

\* calls of start_save in SpecTick
MaxSaves == 2

\* events pushed to the window in SpecTick, after those of the backlog
MaxPushes == 3

\* the latest write of a tick that may fail in SpecTick
MaxFailAt == 2

\* events pushed to the window in SpecRing, after those of the backlog
MaxRingPushes == 3

(***************************************************************************)
(* Helpers on sequences.                                                   *)
(***************************************************************************)
Rep(b, n) == [i \in 1..n |-> b]

\* s[a:b] of Python for 0 <= a <= b (0-based, b exclusive, clipped at the end)
Slice(s, a, b) == SubSeq(s, a + 1, IF b < Len(s) THEN b ELSE Len(s))

\* the bytes a deletion at the front has removed from s, leaving t
Removed(s, t) == SubSeq(s, 1, Len(s) - Len(t))

\* the log of the deletions after one more, of the bytes p
Deleted(log, p) ==
    Append(log, [at |-> IF log = <<>> THEN 0
                        ELSE log[Len(log)].at + Len(log[Len(log)].bytes),
                 bytes |-> p])

\* a deletion that takes one byte too many
DelFront_one_more(s, n) == SubSeq(s, n + 2, Len(s))

\* del s[0:n]
DelFront(s, n) == SubSeq(s, n + 1, Len(s))

(***************************************************************************)
(* Numbers. A field of a frame is an unsigned integer of up to 88 bits     *)
(* and a coefficient is up to 21 * 2^69 / 125: both are beyond the         *)
(* integers of the model checker, so they are kept exactly, an integer as  *)
(* its base-256 digits without leading zeros and a coefficient as the      *)
(* rational m * 2^e / d.  A quotient val / coeff keeps its numerator and   *)
(* its divisor.                                                            *)
(***************************************************************************)
RECURSIVE int_from_bytes(_)
int_from_bytes(s) ==
    IF s = <<>> THEN <<>>
    ELSE IF Head(s) = 0 THEN int_from_bytes(Tail(s))
    ELSE s

calculate_coeffs(g) ==
    LET nf == [m |-> 21, e |-> 6 * g + 51, d |-> 125]
        na == [m |-> 1, e |-> 24 + 6 * g, d |-> 1]
    IN  <<nf, na>>

Div(val, coeff) == [num |-> val, den |-> coeff]

\* the list [nf, nf, na, na] built at lines 40 and 71
CoeffList(g) ==
    LET c == calculate_coeffs(g)
    IN  <<c[1], c[1], c[2], c[2]>>

\* val1..val4 of run(): the four fields of a frame
FieldVal(frame, i) ==
    CASE i = 1 -> int_from_bytes(Slice(frame, 3, 14))
      [] i = 2 -> int_from_bytes(Slice(frame, 14, 25))
      [] i = 3 -> int_from_bytes(Slice(frame, 25, 32))
      [] i = 4 -> int_from_bytes(Slice(frame, 32, 39))

(***************************************************************************)
(* State.                                                                  *)
(***************************************************************************)
VARIABLES
    \* SerialThread
    is_running, port_open, buffer, current_coeffs,
    \* SerialThread.run: its position and locals
    pc, frame, processed_data,
    \* the queued signal data_received_signal, from run() to the window
    sigq,
    \* MainWindow: the sample path
    temp_buffer, data_ch1, data_ch2, data_ch3, data_ch4, txt_raw_display,
    \* MainWindow: logging
    is_saving, save_file, btn_save_start, btn_save_stop, disk,
    \* MainWindow: connection and configuration widgets
    btn_connect, combo_freq, user_inputs, ui_pc,
    \* history of the acquisition thread: the bytes read, the length of
    \* each read, the frames cut, the events emitted
    stream, cuts, frames, emitted,
    \* history of the window: the events pushed since the last tick, the
    \* batch the last tick took, all events taken by ticks, the samples
    \* drained while is_saving since the last start_save that opened a file,
    \* the calls of start_save and of on_data_received, and the number of
    \* events taken when a write to the log last failed (-1: none has)
    pushedSince, drained, taken, session, nsaves, npushes, failed_at,
    \* history of construct_and_send: what its current (or last) call did to
    \* the transport and to the coefficients, in order
    cas_log,
    \* history of the resync buffer: what was deleted from its front, in
    \* order, each deletion (a frame, or one byte) as the bytes it removed
    \* and the number of bytes removed before it
    pieces,
    \* history of the failures of the read: <<>>, or, when the read has raised
    \* since the port was last opened or closed by the window, the numbers
    \* of events taken and of reads done when it raised
    raised

serialVars == <<is_running, port_open, buffer, current_coeffs>>
runVars == <<pc, frame, processed_data>>
ringVars == <<data_ch1, data_ch2, data_ch3, data_ch4>>
tickVars == <<temp_buffer, ringVars, txt_raw_display>>
saveVars == <<is_saving, save_file, btn_save_start, btn_save_stop, disk>>
cfgVars == <<btn_connect, combo_freq, user_inputs, ui_pc>>
acqHist == <<stream, cuts, frames, emitted, raised, pieces>>
winHist == <<pushedSince, drained, taken, session, nsaves, npushes, failed_at>>
vars == <<serialVars, runVars, sigq, tickVars, saveVars, cfgVars,
          acqHist, winHist, cas_log>>

\* everything the window owns
winVars == <<tickVars, saveVars, cfgVars, winHist, cas_log>>

(***************************************************************************)
(* SerialThread.run                                                        *)
(***************************************************************************)
\* a loop that does not test is_running
run_while_forever ==
    /\ pc = "while"
    /\ pc' = "try"
    /\ UNCHANGED <<serialVars, frame, processed_data, sigq, winVars, acqHist>>

\* while self.is_running:
run_while ==
    /\ pc = "while"
    /\ pc' = IF is_running THEN "try" ELSE "finished"
    /\ UNCHANGED <<serialVars, frame, processed_data, sigq, winVars, acqHist>>

\* run_read with the buffer replaced by the read, not extended
run_read_replacing(raw) ==
    /\ pc = "try"
    /\ port_open
    /\ raw # <<>>
    /\ buffer' = raw
    /\ pc' = "inner"
    /\ stream' = stream \o raw
    /\ cuts' = Append(cuts, Len(raw))
    /\ UNCHANGED <<is_running, port_open, current_coeffs, frame, processed_data,
                   sigq, winVars, frames, emitted, raised, pieces>>

\* raw = self.serial_port.read(self.serial_port.in_waiting); self.buffer.extend(raw)
run_read(raw) ==
    /\ pc = "try"
    /\ port_open
    /\ raw # <<>>
    /\ buffer' = buffer \o raw
    /\ pc' = "inner"
    /\ stream' = stream \o raw
    /\ cuts' = Append(cuts, Len(raw))
    /\ UNCHANGED <<is_running, port_open, current_coeffs, frame, processed_data,
                   sigq, winVars, frames, emitted, raised, pieces>>

\* the test of line 81
IsFrameStart_any(b) == TRUE

IsFrameStart_never(b) == FALSE

IsFrameStart(b) == b = SENTINEL

\* one iteration of: while len(self.buffer) >= FRAME_LEN
run_inner ==
    /\ pc = "inner"
    /\ IF Len(buffer) >= FRAME_LEN
       THEN IF IsFrameStart(buffer[1])
            THEN /\ frame' = Slice(buffer, 0, FRAME_LEN)
                 /\ frames' = Append(frames, frame')
                 /\ processed_data' = <<>>
                 /\ pc' = "divide"
                 /\ UNCHANGED <<buffer, pieces>>
            ELSE /\ buffer' = DelFront(buffer, 1)
                 /\ pieces' = Deleted(pieces, Removed(buffer, buffer'))
                 /\ UNCHANGED <<pc, frame, processed_data, frames>>
       ELSE /\ pc' = "while"
            /\ UNCHANGED <<buffer, frame, processed_data, frames, pieces>>
    /\ UNCHANGED <<is_running, port_open, current_coeffs, sigq, winVars,
                   stream, cuts, emitted, raised>>

\* val_i / self.current_coeffs[i-1], one element of processed_data
run_divide ==
    /\ pc = "divide"
    /\ LET i == Len(processed_data) + 1
       IN  /\ processed_data' =
                 Append(processed_data, Div(FieldVal(frame, i), current_coeffs[i]))
           /\ pc' = IF i = 4 THEN "emit" ELSE "divide"
    /\ UNCHANGED <<serialVars, frame, sigq, winVars, acqHist>>

\* self.data_received_signal.emit(...); del self.buffer[0:FRAME_LEN]
run_emit ==
    /\ pc = "emit"
    /\ sigq' = Append(sigq, <<processed_data, frame>>)
    /\ buffer' = DelFront(buffer, FRAME_LEN)
    /\ frame' = <<>>
    /\ processed_data' = <<>>
    /\ pc' = "inner"
    /\ emitted' = Append(emitted, <<processed_data, frame>>)
    /\ pieces' = Deleted(pieces, Removed(buffer, buffer'))
    /\ UNCHANGED <<is_running, port_open, current_coeffs, winVars,
                   stream, cuts, frames, raised>>

\* the except clause without line 104: the loop goes on and reads again
run_except_retrying ==
    /\ pc = "try"
    /\ is_running' = is_running
    /\ pc' = "while"
    /\ raised' = <<Len(taken), Len(cuts)>>
    /\ UNCHANGED <<port_open, buffer, current_coeffs, frame, processed_data,
                   sigq, winVars, stream, cuts, frames, emitted, pieces>>

\* except Exception: self.is_running = False.  in_waiting and read raise when
\* the port has been closed under the thread, or when the device fails.
run_except ==
    /\ pc = "try"
    /\ is_running' = FALSE
    /\ pc' = "while"
    /\ raised' = <<Len(taken), Len(cuts)>>
    /\ UNCHANGED <<port_open, buffer, current_coeffs, frame, processed_data,
                   sigq, winVars, stream, cuts, frames, emitted, pieces>>

\* else: time.sleep(0.001), when in_waiting is 0
run_sleep ==
    /\ pc = "try"
    /\ port_open
    /\ pc' = "while"
    /\ UNCHANGED <<serialVars, frame, processed_data, sigq, winVars, acqHist>>

(***************************************************************************)
(* MainWindow: the sample path.  The slots of the window run on the one    *)
(* GUI thread, each to completion; ui_pc is "idle" between slots.          *)
(***************************************************************************)
\* a deque without maxlen
deque_extend_unbounded(d, xs) == d \o xs

\* a bounded buffer that drops the newest values
deque_extend_keeping_oldest(d, xs) == SubSeq(d \o xs, 1, plot_len)

\* deque(..., maxlen=plot_len).extend(xs): the oldest values fall out
deque_extend(d, xs) ==
    LET all == d \o xs
    IN  IF Len(all) > plot_len
        THEN SubSeq(all, Len(all) - plot_len + 1, Len(all))
        ELSE all

\* new_processed = [x[0] for x in self.temp_buffer]
NewProcessed(tb) == [i \in 1..Len(tb) |-> tb[i][1]]

\* new_raw = [x[1] for x in self.temp_buffer]
NewRaw(tb) == [i \in 1..Len(tb) |-> tb[i][2]]

\* new_processed_np[:, c - 1]
Column(rows, c) == [i \in 1..Len(rows) |-> rows[i][c]]

\* new_raw[-5:]
DisplayChunk(new_raw) ==
    IF Len(new_raw) > DISPLAY_FRAMES
    THEN SubSeq(new_raw, Len(new_raw) - DISPLAY_FRAMES + 1, Len(new_raw))
    ELSE new_raw

HexDigits == <<"0", "1", "2", "3", "4", "5", "6", "7",
               "8", "9", "A", "B", "C", "D", "E", "F">>

\* " ".join([f"{b:02X}" for b in frame]): the two digits of every byte
HexStr(fr) ==
    [i \in 1..Len(fr) |-> <<HexDigits[(fr[i] \div 16) + 1], HexDigits[(fr[i] % 16) + 1]>>]

\* "\n".join(text_lines): the lines of the display
RawText(chunk) == [i \in 1..Len(chunk) |-> HexStr(chunk[i])]

\* a line of a file is the sequence of the pieces it was formatted from
Header == <<"CH1,CH2,CH3,CH4\n">>

\* f"{x:.8f}"
Fmt8(x) == [fmt |-> ".8f", of |-> x]

\* line = f"{row_data[0]:.8f}, {row_data[1]:.8f}, {row_data[2]:.8f}, {row_data[3]:.8f}\n"
FormatLine(row_data) ==
    <<Fmt8(row_data[1]), ", ", Fmt8(row_data[2]), ", ",
      Fmt8(row_data[3]), ", ", Fmt8(row_data[4]), "\n">>

\* the loop of lines 334-336 writing only its last row
FormatLines_last(rows) ==
    IF rows = <<>> THEN <<>> ELSE <<FormatLine(rows[Len(rows)])>>

\* the lines the loop of lines 334-336 writes for these rows
FormatLines(rows) == [i \in 1..Len(rows) |-> FormatLine(rows[i])]

\* the event put at the front
Pushed_front(tb, data, raw_bytes) == <<<<data, raw_bytes>>>> \o tb

\* what on_data_received leaves in temp_buffer
Pushed(tb, data, raw_bytes) == Append(tb, <<data, raw_bytes>>)

\* self.temp_buffer.append((data, raw_bytes))
on_data_received(data, raw_bytes) ==
    /\ ui_pc = "idle"
    /\ temp_buffer' = Pushed(temp_buffer, data, raw_bytes)
    /\ pushedSince' = Append(pushedSince, <<data, raw_bytes>>)
    /\ npushes' = npushes + 1
    /\ UNCHANGED <<ringVars, txt_raw_display, saveVars, cfgVars,
                   drained, taken, session, nsaves, failed_at, cas_log>>

\* the queued connection delivers the emitted events in order
deliver ==
    /\ sigq # <<>>
    /\ on_data_received(Head(sigq)[1], Head(sigq)[2])
    /\ sigq' = Tail(sigq)
    /\ UNCHANGED <<serialVars, runVars, acqHist>>

\* stop_save without the release of the file
stop_save_keeping ==
    /\ is_saving' = FALSE
    /\ save_file' = save_file
    /\ btn_save_start' = TRUE
    /\ btn_save_stop' = FALSE

\* stop_save: what it does to the window
stop_save ==
    /\ is_saving' = FALSE
    /\ save_file' = "None"
    /\ btn_save_start' = TRUE
    /\ btn_save_stop' = FALSE

\* temp_buffer left as it is by the tick
Emptied_not(tb) == tb

\* self.temp_buffer = [] (line 316)
Emptied(tb) == <<>>

\* the rows appended to the ring buffers, had they been appended after the
\* log was written: only those the log took
PlotRows_logged(new_processed, fail_at) ==
    IF fail_at = 0 THEN new_processed ELSE SubSeq(new_processed, 1, fail_at - 1)

\* new_processed_np = np.array(new_processed) (line 317): every row of the
\* batch, whatever the log does later in the tick
PlotRows(new_processed, fail_at) == new_processed

\* the rows whose write returned: all of them, or those before the write
\* that raised
Written(rows, fail_at) ==
    IF fail_at = 0 THEN rows ELSE SubSeq(rows, 1, fail_at - 1)

\* a tick that never returns early
NothingPending_never(tb) == FALSE

\* if not self.temp_buffer: return (lines 312-313)
NothingPending(tb) == tb = <<>>

\* update_plot, the slot of the 50 ms timer.  fail_at = k > 0: the k-th
\* self.save_file.write of this tick raises; fail_at = 0: none does.
update_plot(fail_at) ==
    /\ ui_pc = "idle"
    /\ IF NothingPending(temp_buffer)
       THEN /\ fail_at = 0
            /\ drained' = <<>>
            /\ pushedSince' = <<>>
            /\ UNCHANGED <<tickVars, saveVars, taken, session, failed_at>>
       ELSE LET new_processed == NewProcessed(temp_buffer)
                new_raw == NewRaw(temp_buffer)
                saving == is_saving /\ save_file # "None"
                new_processed_np == PlotRows(new_processed, fail_at)
            IN  /\ temp_buffer' = Emptied(temp_buffer)
                /\ data_ch1' = deque_extend(data_ch1, Column(new_processed_np, 1))
                /\ data_ch2' = deque_extend(data_ch2, Column(new_processed_np, 2))
                /\ data_ch3' = deque_extend(data_ch3, Column(new_processed_np, 3))
                /\ data_ch4' = deque_extend(data_ch4, Column(new_processed_np, 4))
                /\ txt_raw_display' = RawText(DisplayChunk(new_raw))
                /\ IF saving
                   THEN /\ fail_at \in 0..Len(new_processed)
                        /\ disk' = [disk EXCEPT ![save_file] =
                               @ \o FormatLines(Written(new_processed, fail_at))]
                        /\ IF fail_at # 0
                           THEN stop_save
                           ELSE UNCHANGED <<is_saving, save_file,
                                            btn_save_start, btn_save_stop>>
                        /\ failed_at' = IF fail_at # 0
                                        THEN Len(taken) + Len(new_processed)
                                        ELSE failed_at
                   ELSE /\ fail_at = 0
                        /\ UNCHANGED <<saveVars, failed_at>>
                /\ session' = IF is_saving THEN session \o new_processed ELSE session
                /\ drained' = [i \in 1..Len(new_processed) |->
                                 <<new_processed[i], new_raw[i]>>]
                /\ taken' = taken \o drained'
                /\ pushedSince' = <<>>
    /\ UNCHANGED <<serialVars, runVars, sigq, cfgVars, acqHist, nsaves, npushes,
                   cas_log>>

(***************************************************************************)
(* MainWindow: logging.  A file handle is the name of the file it was      *)
(* opened on, "None" is no handle; disk holds the lines of every file.     *)
(***************************************************************************)
FileNames == {"a.txt"}

\* start_save, the slot of btn_save_start.  filename = "": the dialog was
\* cancelled.  outcome: "ok", "open_fails" (open raises) or "write_fails"
\* (the write of the header raises).
start_save(filename, outcome) ==
    /\ ui_pc = "idle"
    /\ btn_save_start
    /\ nsaves' = nsaves + 1
    /\ IF filename = "" \/ outcome = "open_fails"
       THEN UNCHANGED <<saveVars, session>>
       ELSE /\ save_file' = filename
            /\ is_saving' = TRUE
            /\ session' = <<>>
            /\ IF outcome = "ok"
               THEN /\ disk' = [disk EXCEPT ![filename] = <<Header>>]
                    /\ btn_save_start' = FALSE
                    /\ btn_save_stop' = TRUE
               ELSE /\ disk' = [disk EXCEPT ![filename] = <<>>]
                    /\ UNCHANGED <<btn_save_start, btn_save_stop>>
    /\ UNCHANGED <<serialVars, runVars, sigq, tickVars, cfgVars, acqHist,
                   pushedSince, drained, taken, npushes, failed_at, cas_log>>

\* stop_save as the slot of btn_save_stop
stop_save_clicked ==
    /\ ui_pc = "idle"
    /\ btn_save_stop
    /\ stop_save
    /\ UNCHANGED <<serialVars, runVars, sigq, tickVars, disk, cfgVars,
                   acqHist, winHist, cas_log>>

(***************************************************************************)
(* MainWindow: connection and configuration.                               *)
(***************************************************************************)
\* update_frequency_gain(g): the new list replaces the old one
update_frequency_gain(g) == current_coeffs' = CoeffList(g)

\* update_coeff_only: g of the selected frequency
update_coeff_only == update_frequency_gain(FREQ_G_MAP[combo_freq])

\* the slot of btn_set_freq
update_coeff_clicked ==
    /\ ui_pc = "idle"
    /\ update_coeff_only
    /\ UNCHANGED <<is_running, port_open, buffer, runVars, sigq, tickVars,
                   saveVars, cfgVars, acqHist, winHist, cas_log>>

\* the user picks a frequency in combo_freq
select_freq(name) ==
    /\ ui_pc = "idle"
    /\ combo_freq # name
    /\ combo_freq' = name
    /\ UNCHANGED <<serialVars, runVars, sigq, tickVars, saveVars, btn_connect,
                   user_inputs, ui_pc, acqHist, winHist, cas_log>>

\* toggle_serial, the slot of btn_connect, when the click has checked the
\* button.  port = "": no port is listed.  opens: serial_port.open() does
\* not raise (it raises on a port that is open already).
toggle_serial_on(port, opens) ==
    /\ ui_pc = "idle"
    /\ ~btn_connect
    /\ IF port = ""
       THEN /\ btn_connect' = TRUE
            /\ UNCHANGED <<serialVars, pc, raised>>
       ELSE IF opens /\ ~port_open
       THEN \* open_port returns True; start() starts a thread that is not running
            /\ port_open' = TRUE
            /\ is_running' = TRUE
            /\ pc' = IF pc = "finished" THEN "while" ELSE pc
            /\ update_coeff_only
            /\ btn_connect' = TRUE
            /\ raised' = <<>>
            /\ UNCHANGED buffer
       ELSE /\ btn_connect' = FALSE
            /\ UNCHANGED <<serialVars, pc, raised>>
    /\ UNCHANGED <<frame, processed_data, sigq, tickVars, saveVars, combo_freq,
                   user_inputs, ui_pc, stream, cuts, frames, emitted, pieces,
                   winHist, cas_log>>

\* close_port: self.is_running = False; the port is closed if it is open
close_port ==
    /\ is_running' = FALSE
    /\ port_open' = FALSE

\* toggle_serial when the click has unchecked the button
toggle_serial_off ==
    /\ ui_pc = "idle"
    /\ btn_connect
    /\ stop_save
    /\ close_port
    /\ btn_connect' = FALSE
    /\ raised' = <<>>
    /\ UNCHANGED <<buffer, current_coeffs, runVars, sigq, tickVars, disk,
                   combo_freq, user_inputs, ui_pc, stream, cuts, frames, emitted,
                   pieces, winHist, cas_log>>

(***************************************************************************)
(* The configuration packet.  The text of a field is a sequence of         *)
(* characters, at most two (setMaxLength(2)).                              *)
(***************************************************************************)
\* fixed_vals: 0-based position -> byte
fixed_vals == [i \in {1, 3, 5, 7, 9, 11, 13, 15, 17, 19, 21} |-> 36 + (i - 1) \div 2]

\* the 0-based positions of the QLineEdit fields, in order
UserPositions == {i \in 0..24 : i \notin DOMAIN fixed_vals}

HexValue(c) ==
    CASE c = "0" -> 0 [] c = "1" -> 1 [] c = "2" -> 2 [] c = "3" -> 3
      [] c = "4" -> 4 [] c = "5" -> 5 [] c = "6" -> 6 [] c = "7" -> 7
      [] c = "8" -> 8 [] c = "9" -> 9
      [] c \in {"a", "A"} -> 10 [] c \in {"b", "B"} -> 11
      [] c \in {"c", "C"} -> 12 [] c \in {"d", "D"} -> 13
      [] c \in {"e", "E"} -> 14 [] c \in {"f", "F"} -> 15
      [] OTHER -> -1

\* text.strip()
RECURSIVE lstrip(_)
lstrip(t) == IF t # <<>> /\ Head(t) = " " THEN lstrip(Tail(t)) ELSE t

RECURSIVE rstrip(_)
rstrip(t) ==
    IF t # <<>> /\ t[Len(t)] = " " THEN rstrip(SubSeq(t, 1, Len(t) - 1)) ELSE t

strip(t) == rstrip(lstrip(t))

\* the outcome of a conversion: a value, or the exception ValueError
Value(v) == [ok |-> TRUE, val |-> v]
ValueError == [ok |-> FALSE, val |-> 0]

RECURSIVE HexDigitsValue(_, _)
HexDigitsValue(t, acc) ==
    IF t = <<>> THEN Value(acc)
    ELSE IF HexValue(Head(t)) < 0 THEN ValueError
    ELSE HexDigitsValue(Tail(t), 16 * acc + HexValue(Head(t)))

\* int(text, 16) on a text of one or two characters: an optional sign, then
\* hexadecimal digits
py_int16(t) ==
    IF t = <<>> THEN ValueError
    ELSE IF Head(t) \in {"+", "-"}
    THEN IF Tail(t) = <<>> THEN ValueError
         ELSE LET v == HexDigitsValue(Tail(t), 0)
              IN  IF v.ok /\ Head(t) = "-" THEN Value(0 - v.val) ELSE v
    ELSE HexDigitsValue(t, 0)

\* lines 299-301 for one field: the byte, or ValueError
FieldByte(text) ==
    LET t == strip(text)
        v == IF t # <<>> THEN py_int16(t) ELSE Value(0)
    IN  IF v.ok /\ ~(0 <= v.val /\ v.val <= 255) THEN ValueError ELSE v

\* the 0-based position i holds the k-th user field, k = 1..14
UserIndex(i) == Cardinality({j \in UserPositions : j <= i})

\* the loop of lines 296-302: the 25 bytes, or the exception
Packet(inputs) ==
    LET item(i) == IF i \in DOMAIN fixed_vals THEN Value(fixed_vals[i])
                   ELSE FieldByte(inputs[UserIndex(i)])
    IN  IF \E i \in 0..24 : ~item(i).ok
        THEN [ok |-> FALSE, bytes |-> <<>>]
        ELSE [ok |-> TRUE, bytes |-> [k \in 1..25 |-> item(k - 1).val]]

\* the user types a text into the k-th field
edit_input(k, text) ==
    /\ ui_pc = "idle"
    /\ user_inputs[k] # text
    /\ user_inputs' = [user_inputs EXCEPT ![k] = text]
    /\ UNCHANGED <<serialVars, runVars, sigq, tickVars, saveVars, btn_connect,
                   combo_freq, ui_pc, acqHist, winHist, cas_log>>

\* what send_data hands back to its caller: it has no return statement and
\* catches the exception of the write (lines 66-67), so None either way
send_data_returns(written) == "None"

\* construct_and_send, the slot of btn_send, up to the return of send_data.
\* written: serial_port.write does not raise.
construct_and_send(written) ==
    /\ ui_pc = "idle"
    /\ IF ~is_running
       THEN \* "请先打开串口"
            /\ written
            /\ cas_log' = <<>>
            /\ UNCHANGED ui_pc
       ELSE LET packet == Packet(user_inputs)
            IN  IF ~packet.ok
                THEN /\ written
                     /\ cas_log' = <<[op |-> "error"]>>
                     /\ UNCHANGED ui_pc
                ELSE \* send_data(packet)
                     /\ IF port_open
                        THEN cas_log' = <<[op |-> "write", ok |-> written,
                                           packet |-> packet.bytes,
                                           returned |-> send_data_returns(written)]>>
                        ELSE /\ written
                             /\ cas_log' = <<>>
                     /\ ui_pc' = "cas_update"
    /\ UNCHANGED <<serialVars, runVars, sigq, tickVars, saveVars, btn_connect,
                   combo_freq, user_inputs, acqHist, winHist>>

\* construct_and_send returning without line 304
cas_update_none ==
    /\ ui_pc = "cas_update"
    /\ ui_pc' = "idle"
    /\ UNCHANGED <<serialVars, runVars, sigq, tickVars, saveVars, btn_connect,
                   combo_freq, user_inputs, acqHist, winHist, cas_log>>

\* construct_and_send, line 304: self.update_coeff_only()
cas_update ==
    /\ ui_pc = "cas_update"
    /\ update_coeff_only
    /\ cas_log' = Append(cas_log, [op |-> "coeffs", freq |-> combo_freq,
                                   coeffs |-> current_coeffs'])
    /\ ui_pc' = "idle"
    /\ UNCHANGED <<is_running, port_open, buffer, runVars, sigq, tickVars,
                   saveVars, btn_connect, combo_freq, user_inputs,
                   acqHist, winHist>>

(***************************************************************************)
(* The state after MainWindow.__init__.                                    *)
(***************************************************************************)
\* the integer 0, as its digits
Zero == <<>>

\* [0]*self.plot_len
Zeros == Rep(Zero, plot_len)

\* backlog: the events delivered to the window and not yet drained
InitWith(backlog) ==
    /\ is_running = FALSE
    /\ port_open = FALSE
    /\ buffer = <<>>
    /\ current_coeffs = CoeffList(0)
    /\ pc = "finished"
    /\ frame = <<>>
    /\ processed_data = <<>>
    /\ sigq = <<>>
    /\ temp_buffer = backlog
    /\ data_ch1 = Zeros
    /\ data_ch2 = Zeros
    /\ data_ch3 = Zeros
    /\ data_ch4 = Zeros
    /\ txt_raw_display = <<>>
    /\ is_saving = FALSE
    /\ save_file = "None"
    /\ btn_save_start = TRUE
    /\ btn_save_stop = FALSE
    /\ disk = [f \in FileNames |-> <<>>]
    /\ btn_connect = FALSE
    /\ combo_freq = "2KHz"
    /\ user_inputs = [k \in 1..14 |-> <<"0", "0">>]
    /\ ui_pc = "idle"
    /\ stream = <<>>
    /\ cuts = <<>>
    /\ frames = <<>>
    /\ emitted = <<>>
    /\ pushedSince = backlog
    /\ drained = <<>>
    /\ taken = <<>>
    /\ session = <<>>
    /\ nsaves = 0
    /\ npushes = 0
    /\ failed_at = -1
    /\ cas_log = <<>>
    /\ raised = <<>>
    /\ pieces = <<>>

Init == InitWith(<<>>)

(***************************************************************************)
(* SpecSync: the acquisition thread alone, on every stream of MaxReads     *)
(* reads drawn from SyncChunks.                                            *)
(***************************************************************************)
SyncBytes == {SENTINEL, 0, 1}
SyncLens == {1, FRAME_LEN - 1, FRAME_LEN + 1, 2 * FRAME_LEN}
SyncChunks == {Rep(b, n) : b \in SyncBytes, n \in SyncLens}

NextSync ==
    \/ toggle_serial_on("COM1", TRUE)
    \/ run_while
    \/ \E raw \in SyncChunks : Len(cuts) < MaxReads /\ run_read(raw)
    \/ run_inner
    \/ run_divide
    \/ run_emit

SpecSync == Init /\ [][NextSync]_vars

\* The loop of lines 80-99 run to exhaustion on a buffer: the frames it cuts
\* (after those of out) and the buffer it leaves.
RECURSIVE ExtractAll(_, _)
ExtractAll(buf, out) ==
    IF Len(buf) < FRAME_LEN THEN [frames |-> out, buffer |-> buf]
    ELSE IF buf[1] = SENTINEL
    THEN ExtractAll(DelFront(buf, FRAME_LEN), Append(out, Slice(buf, 0, FRAME_LEN)))
    ELSE ExtractAll(DelFront(buf, 1), out)

\* the thread is between two reads: the inner loop has run to exhaustion
BetweenReads == pc \in {"while", "try", "finished"}

\* C1: chunk-boundary independence.  Whatever the reads the stream arrived
\* in, once the loop has run after the last of them the frames cut so far,
\* in order, and the buffer left are those of one run of the loop on the
\* whole stream appended at once to an empty buffer.
C1_ChunkIndependence ==
    BetweenReads =>
        /\ frames = ExtractAll(stream, <<>>).frames
        /\ buffer = ExtractAll(stream, <<>>).buffer
        /\ NewRaw(emitted) = frames

\* a frame that began in one read and ended in a later one, more frames
\* after it, and bytes left over
C1_Witness ==
    /\ BetweenReads
    /\ Len(cuts) = MaxReads
    /\ cuts[1] < FRAME_LEN
    /\ stream[1] = SENTINEL
    /\ Len(frames) >= 2
    /\ buffer # <<>>

\* the events that left the thread or are about to: queued, pushed, taken
AllFrames ==
    frames \o NewRaw(sigq) \o NewRaw(temp_buffer) \o NewRaw(emitted)
        \o (IF pc \in {"divide", "emit"} THEN <<frame>> ELSE <<>>)

\* C2: every frame handed to the decoder and every frame emitted is exactly
\* FRAME_LEN bytes long and begins with the sentinel; a stream without a
\* sentinel byte yields no frame.
C2_FramesWellFormed ==
    /\ \A i \in 1..Len(AllFrames) :
          Len(AllFrames[i]) = FRAME_LEN /\ AllFrames[i][1] = SENTINEL
    /\ (\A i \in 1..Len(stream) : stream[i] # SENTINEL) => AllFrames = <<>>

\* two frames have been emitted and a third is being decoded, cut from a
\* stream that began with bytes that are no sentinel
C2_Witness ==
    /\ Len(emitted) >= 2
    /\ stream[1] # SENTINEL
    /\ pc = "divide"

(***************************************************************************)
(* SpecCoeff: the decoding of frames interleaved with the slots that       *)
(* replace the coefficients.                                               *)
(***************************************************************************)
\* a frame whose bytes after the sentinel are all b
FrameOf(b) == <<SENTINEL>> \o Rep(b, FRAME_LEN - 1)

NextCoeff ==
    \/ toggle_serial_on("COM1", TRUE)
    \/ run_while
    \/ Len(cuts) < MaxCoeffReads /\ run_read(FrameOf(1))
    \/ run_inner
    \/ run_divide
    \/ run_emit
    \/ update_coeff_clicked
    \/ \E name \in DOMAIN FREQ_G_MAP : select_freq(name)

SpecCoeff == Init /\ [][NextCoeff]_vars

\* the divisors a sample was computed with
Divisors(data) == [i \in 1..Len(data) |-> data[i].den]

\* C3: coefficient reads are never torn.  Every decoded sample is computed
\* with the four divisors of one gain index g, (nf(g), nf(g), na(g), na(g)).
C3_NoTornRead ==
    \A i \in 1..Len(emitted) :
        \E g \in 0..3 : Divisors(emitted[i][1]) = CoeffList(g)

(***************************************************************************)
(* SpecHandoff: the emission of events by the acquisition thread           *)
(* interleaved with their delivery to the window and with the ticks.       *)
(***************************************************************************)
HandoffChunks == {FrameOf(1), FrameOf(2), FrameOf(1) \o FrameOf(2)}

NextHandoff ==
    \/ toggle_serial_on("COM1", TRUE)
    \/ run_while
    \/ \E raw \in HandoffChunks : Len(cuts) < MaxHandoffReads /\ run_read(raw)
    \/ run_inner
    \/ run_divide
    \/ run_emit
    \/ deliver
    \/ update_plot(0)

SpecHandoff == Init /\ [][NextHandoff]_vars

\* C5: exactly-once hand-off.  The events emitted so far are, in the order
\* of their emission, those the ticks have taken, then those waiting in
\* temp_buffer, then those queued for delivery: none is lost, none is taken
\* twice, none overtakes another.
C5_ExactlyOnceInOrder == emitted = taken \o temp_buffer \o sigq

\* two ticks have taken events, one is waiting in temp_buffer and one is
\* queued, and the events are not all the same
C5_Witness ==
    /\ drained # <<>>
    /\ Len(drained) < Len(taken)
    /\ temp_buffer # <<>>
    /\ sigq # <<>>
    /\ taken[1] # taken[2]

(***************************************************************************)
(* SpecTick: the window alone, with logging.  Events arrive as             *)
(* on_data_received is called with them.                                   *)
(***************************************************************************)
\* the event run() emits for a frame decoded with the coefficients of g
Decoded(fr, g) ==
    <<[i \in 1..4 |-> Div(FieldVal(fr, i), CoeffList(g)[i])], fr>>

TickEvents == {Decoded(FrameOf(1), 0), Decoded(FrameOf(2), 1)}

push(ev) ==
    /\ on_data_received(ev[1], ev[2])
    /\ UNCHANGED <<serialVars, runVars, sigq, acqHist>>

NextTick ==
    \/ \E ev \in TickEvents : npushes < MaxPushes /\ push(ev)
    \/ \E fail_at \in 0..MaxFailAt : update_plot(fail_at)
    \/ \E f \in FileNames \cup {""}, o \in {"ok", "open_fails", "write_fails"} :
          nsaves < MaxSaves /\ start_save(f, o)
    \/ stop_save_clicked

SpecTick == Init /\ [][NextTick]_vars

\* a call of update_plot, and one in which a write to the log raises
Tick == \E k \in 0..MaxFailAt : update_plot(k)
FailingTick == \E k \in 1..MaxFailAt : update_plot(k)

\* C4: drain of the sample channel.  A tick takes exactly the events pushed
\* since the tick before it, in push order, and leaves temp_buffer empty; a
\* tick that follows with no push in between takes nothing.
C4_DrainTakesPushed ==
    [][Tick => (drained' = pushedSince /\ temp_buffer' = <<>>)]_vars

\* a tick has just taken three events that are not all the same
C4_Witness ==
    /\ Len(drained) = 3
    /\ drained[1] # drained[2]
    /\ temp_buffer = <<>>
    /\ pushedSince = <<>>

\* the sample records of a file: its lines but the header
Records(lines) == SelectSeq(lines, LAMBDA l : l # Header)

\* C7: while logging is active and no write has failed, the log holds one
\* record for every sample the ticks drained since logging started, in
\* the order they were drained.
C7_LogHoldsDrained ==
    is_saving =>
        /\ save_file \in FileNames
        /\ Records(disk[save_file]) = FormatLines(session)

\* logging is on, two ticks have written to the log, three samples in all
C7_Witness ==
    /\ is_saving
    /\ Len(session) = 3
    /\ drained # <<>>
    /\ Len(drained) < Len(session)
    /\ Len(disk[save_file]) = 4

\* C8: a write failure switches logging off.  The tick in which a write
\* raises ends with is_saving false and save_file None; while is_saving is
\* false no step writes to a file but a call of start_save, and is_saving
\* becomes true only in a call of start_save.
C8_FailureStopsLogging ==
    [][/\ FailingTick => (~is_saving' /\ save_file' = "None" /\ ui_pc' = "idle")
       /\ (~is_saving /\ nsaves' = nsaves) => (disk' = disk /\ ~is_saving')]_vars

\* a write failed in a tick that took two samples, after one record was
\* written, and a later tick took a third sample
C8_Witness ==
    /\ failed_at = 2
    /\ Len(taken) = 3
    /\ ~is_saving
    /\ save_file = "None"
    /\ \E f \in FileNames : Len(disk[f]) = 2 /\ disk[f][1] = Header

\* the last n values of s
LastN(s, n) == IF Len(s) > n THEN SubSeq(s, Len(s) - n + 1, Len(s)) ELSE s

\* what ring buffer c holds when every sample taken so far was appended
RingOf(c) == LastN(Zeros \o Column(NewProcessed(taken), c), plot_len)

\* C9: visualization survives a sink failure.  Once a write to the log has
\* failed, the ring buffers hold every sample taken so far, those of the
\* failing tick and of the later ticks included.
C9_RingsSurviveFailure ==
    failed_at >= 0 =>
        /\ data_ch1 = RingOf(1)
        /\ data_ch2 = RingOf(2)
        /\ data_ch3 = RingOf(3)
        /\ data_ch4 = RingOf(4)

\* the first write of a tick that took two samples failed, and a later
\* tick took a third
C9_Witness ==
    /\ failed_at = 2
    /\ Len(session) = 2
    /\ \A f \in FileNames : Records(disk[f]) = <<>>
    /\ Len(taken) = 3
    /\ Len(drained) = 1

(***************************************************************************)
(* SpecRing: the ring buffers under batches of every size.  The window     *)
(* starts with a backlog of events that arrived before its first tick, of  *)
(* up to plot_len + 1 events.                                              *)
(***************************************************************************)
BacklogLens == {0, plot_len - 1, plot_len + 1}

InitRing == \E n \in BacklogLens : InitWith(Rep(Decoded(FrameOf(1), 0), n))

NextRing ==
    \/ \E ev \in TickEvents : npushes < MaxRingPushes /\ push(ev)
    \/ update_plot(0)

SpecRing == InitRing /\ [][NextRing]_vars

\* C6: each of the four ring buffers holds exactly plot_len values, after
\* creation and after every tick, whatever the size of its batch.
C6_RingsFull ==
    /\ Len(data_ch1) = plot_len
    /\ Len(data_ch2) = plot_len
    /\ Len(data_ch3) = plot_len
    /\ Len(data_ch4) = plot_len

\* a tick has taken a batch of more than plot_len events, and another tick
\* after it a batch of two
C6_Witness ==
    /\ Len(taken) > plot_len + 1
    /\ Len(drained) = 2
    /\ data_ch1[1] # Zero

(***************************************************************************)
(* SpecConfig: the connection button, the frequency selection and the      *)
(* configuration packet, with an acquisition thread that reads nothing     *)
(* and may fail.                                                           *)
(***************************************************************************)
Texts == {<<"0", "0">>, <<"F", "f">>, <<"z", "z">>}

EditedFields == {1, 14}

NextConfig ==
    \/ \E port \in {"", "COM1"}, opens \in BOOLEAN : toggle_serial_on(port, opens)
    \/ toggle_serial_off
    \/ run_while
    \/ run_except
    \/ update_coeff_clicked
    \/ \E name \in DOMAIN FREQ_G_MAP : select_freq(name)
    \/ \E k \in EditedFields, t \in Texts : edit_input(k, t)
    \/ \E written \in BOOLEAN : construct_and_send(written)
    \/ cas_update

SpecConfig == Init /\ [][NextConfig]_vars

\* the places in cas_log of the write of the packet and of the update
Writes == {i \in 1..Len(cas_log) : cas_log[i].op = "write"}
Updates == {i \in 1..Len(cas_log) : cas_log[i].op = "coeffs"}

\* C10 as claimed: in construct_and_send the coefficients are replaced
\* before the packet is written to the transport.
C10_UpdateBeforePacket ==
    \A i \in Writes : \E j \in Updates : j < i

\* C10 as amended: in construct_and_send the packet is written to the
\* transport first and the coefficients are replaced after it, for the g of
\* the selected frequency, before the slot returns.
C10_PacketBeforeUpdate ==
    /\ \A j \in Updates :
          /\ \A i \in Writes : i < j
          /\ cas_log[j].coeffs = CoeffList(FREQ_G_MAP[cas_log[j].freq])
    /\ (ui_pc = "idle" /\ Writes # {}) => Updates # {}
    /\ (ui_pc = "cas_update") => Updates = {}

\* a packet has been written while the coefficients were those of g = 0,
\* and the slot has then replaced them by those of g = 3
C10_Witness ==
    /\ ui_pc = "idle"
    /\ Len(cas_log) = 2
    /\ cas_log[1].op = "write"
    /\ cas_log[1].ok
    /\ cas_log[1].packet[25] = 255
    /\ cas_log[2].op = "coeffs"
    /\ cas_log[2].freq = "250Hz"
    /\ current_coeffs = CoeffList(3)

(***************************************************************************)
(* SpecPacket: the fields of the configuration packet under texts of       *)
(* every shape a QLineEdit of two characters can hold, and the packets     *)
(* construct_and_send writes for them.                                     *)
(***************************************************************************)
PacketTexts ==
    {<<>>, <<" ", " ">>, <<"0", "0">>, <<"f", "F">>, <<" ", "7">>, <<"z">>,
     <<"0", "x">>, <<"-", "0">>, <<"-", "1">>, <<"+", "A">>}

NextPacket ==
    \/ toggle_serial_on("COM1", TRUE)
    \/ \E k \in EditedFields, t \in PacketTexts : edit_input(k, t)
    \/ \E written \in BOOLEAN : construct_and_send(written)
    \/ cas_update

SpecPacket == Init /\ [][NextPacket]_vars

\* a call of construct_and_send, up to the return of send_data
Sends == \E written \in BOOLEAN : construct_and_send(written)

\* the text is a hexadecimal value in 0..255: one or two hexadecimal digits
IsHexByte(text) ==
    /\ Len(text) \in 1..2
    /\ \A i \in 1..Len(text) : HexValue(text[i]) >= 0

\* the value of one or two hexadecimal digits
HexByte(text) ==
    IF Len(text) = 1 THEN HexValue(text[1])
    ELSE 16 * HexValue(text[1]) + HexValue(text[2])

\* C11: malformed configuration input is rejected before transmission.  A
\* call of construct_and_send writes to the transport only when every one of
\* the 14 user fields is a hexadecimal value in 0..255, and then it writes
\* 25 bytes, 0x24..0x2E at the 0-based positions 1, 3, ..., 21 and the value
\* of each field at its position; with any other field it writes nothing.
C11_MalformedRejected ==
    [][Sends =>
         \A i \in 1..Len(cas_log') :
          (cas_log'[i].op = "write" /\ cas_log'[i].ok) =>
            /\ \A k \in 1..14 : IsHexByte(user_inputs[k])
            /\ Len(cas_log'[i].packet) = 25
            /\ \A j \in DOMAIN fixed_vals :
                  cas_log'[i].packet[j + 1] = 36 + (j - 1) \div 2
            /\ \A j \in UserPositions :
                  cas_log'[i].packet[j + 1] = HexByte(user_inputs[UserIndex(j)])
      ]_vars

(***************************************************************************)
(* Further properties of the window under SpecTick.                        *)
(***************************************************************************)
\* C12: log header ordering.  A file that holds a sample record holds the
\* header as its first line, and holds it once, whatever the calls of
\* start_save and stop_save, the ticks and the writes that failed, the write
\* of the header included.
C12_HeaderFirst ==
    \A f \in FileNames :
        Records(disk[f]) # <<>> =>
            /\ disk[f][1] = Header
            /\ \A i \in 2..Len(disk[f]) : disk[f][i] # Header

\* C13: raw-hex display content.  After every tick that took an event the
\* display shows the most recent min(5, frames received so far) raw frames,
\* in arrival order, whatever the ticks they were taken in.
C13_DisplayMostRecent ==
    taken # <<>> =>
        txt_raw_display = RawText(LastN(NewRaw(taken), DISPLAY_FRAMES))

(***************************************************************************)
(* SpecFail: the acquisition thread with reads that raise, the window      *)
(* that opens and closes the port, the delivery of the events and the      *)
(* ticks.                                                                  *)
(***************************************************************************)
FailChunks == {FrameOf(1), FrameOf(1) \o FrameOf(2)}

NextFail ==
    \/ toggle_serial_on("COM1", TRUE)
    \/ toggle_serial_off
    \/ run_while
    \/ \E raw \in FailChunks : Len(cuts) < MaxFailReads /\ run_read(raw)
    \/ run_sleep
    \/ run_inner
    \/ run_divide
    \/ run_emit
    \/ run_except
    \/ deliver
    \/ update_plot(0)

SpecFail == Init /\ [][NextFail]_vars

\* ring buffer d after the values of channel c of these events have been
\* appended to it
RingAfter(d, events, c) == LastN(d \o Column(NewProcessed(events), c), plot_len)

\* C14: a read that raises is fatal to the acquisition thread only.  The
\* step in which it raises sets is_running to false and leaves the queued
\* signal, temp_buffer and the ring buffers as they are; from then on, until
\* the window closes or opens the port, the thread does no read and its only
\* step is the one that ends run(); a tick after the failure takes the
\* events pushed before it and appends them to the ring buffers.
C14_ReadFailureStopsTask ==
    [][/\ run_except =>
            (~is_running' /\ UNCHANGED <<sigq, temp_buffer, ringVars>>)
       /\ raised' # <<>> =>
            /\ ~is_running'
            /\ pc' \in {"while", "finished"}
            /\ Len(cuts') = raised'[2]
       /\ (raised # <<>> /\ raised' # <<>> /\ pc' # pc) => pc' = "finished"
       /\ (raised # <<>> /\ update_plot(0)) =>
            /\ drained' = pushedSince
            /\ temp_buffer' = <<>>
            /\ data_ch1' = RingAfter(data_ch1, pushedSince, 1)
            /\ data_ch2' = RingAfter(data_ch2, pushedSince, 2)
            /\ data_ch3' = RingAfter(data_ch3, pushedSince, 3)
            /\ data_ch4' = RingAfter(data_ch4, pushedSince, 4)
      ]_vars

\* a read raised after a read had been done and a tick had taken an event;
\* run() has ended, and ticks after the failure have taken the other events
C14_Witness ==
    /\ raised # <<>>
    /\ pc = "finished"
    /\ raised[2] >= 1
    /\ raised[1] >= 1
    /\ Len(taken) > raised[1]
    /\ Len(taken) = Len(emitted)
    /\ drained # <<>>

\* C15: a write failure is reported to the caller and does not stop the
\* pipeline.  When the write of send_data raises, what construct_and_send
\* gets back from send_data differs from what it gets back after a write
\* that succeeded, and the call leaves is_running, the resync buffer, the
\* queued signal, temp_buffer, the ring buffers and the position of run()
\* as they are.
C15_WriteFailureReported ==
    [][construct_and_send(FALSE) =>
         /\ UNCHANGED <<is_running, buffer, pc, sigq, temp_buffer, ringVars>>
         /\ \A i \in 1..Len(cas_log') :
               cas_log'[i].op = "write" =>
                   cas_log'[i].returned # send_data_returns(TRUE)
      ]_vars

(***************************************************************************)
(* SpecStop: SpecFail with a thread that is scheduled.  A running thread   *)
(* takes its next step: the test of the loop, the attempt to read (which   *)
(* reads, sleeps 1 ms or raises), a turn of the inner loop, a division,    *)
(* the emission.                                                           *)
(***************************************************************************)
run_try ==
    \/ \E raw \in FailChunks : Len(cuts) < MaxFailReads /\ run_read(raw)
    \/ run_sleep
    \/ run_except

SpecStop ==
    /\ SpecFail
    /\ WF_vars(run_while)
    /\ WF_vars(run_try)
    /\ WF_vars(run_inner)
    /\ WF_vars(run_divide)
    /\ WF_vars(run_emit)

\* a whole event: four values, each the quotient of its field of the frame,
\* and the 40 bytes of the frame
WholeEvent(ev) ==
    /\ Len(ev) = 2
    /\ Len(ev[2]) = FRAME_LEN
    /\ ev[2][1] = SENTINEL
    /\ Len(ev[1]) = 4
    /\ \A i \in 1..4 :
          /\ ev[1][i].num = FieldVal(ev[2], i)
          /\ \E g \in 0..3 : ev[1][i].den = CoeffList(g)[i]

WholeEvents(evs) == \A i \in 1..Len(evs) : WholeEvent(evs[i])

\* C16: shutdown stops acquisition.  Whenever the port is closed, run()
\* ends unless the port is opened again; and in every state, whatever the
\* point of the loop at which the port was closed, the queued signal and
\* temp_buffer hold whole events only and the ring buffers hold, aligned,
\* the four values of every sample taken.
C16_ShutdownStops ==
    /\ (~port_open) ~> (pc = "finished" \/ port_open)
    /\ [](/\ WholeEvents(sigq)
          /\ WholeEvents(temp_buffer)
          /\ WholeEvents(taken)
          /\ data_ch1 = RingOf(1)
          /\ data_ch2 = RingOf(2)
          /\ data_ch3 = RingOf(3)
          /\ data_ch4 = RingOf(4))

\* the port has been closed while run() is half way through the decoding
\* of its second frame, the event of the first being in temp_buffer
C16_Witness ==
    /\ ~port_open
    /\ ~is_running
    /\ ~btn_connect
    /\ pc = "divide"
    /\ Len(processed_data) = 2
    /\ Len(emitted) = 1
    /\ temp_buffer # <<>>

(***************************************************************************)
(* Further properties of the ticks under SpecTick.                         *)
(***************************************************************************)
\* C17: an empty tick is a no-op.  A call of update_plot with nothing in
\* temp_buffer leaves the four ring buffers, the raw-hex display, is_saving,
\* save_file, the buttons of the log and the contents of every file as they
\* are, and writes nothing.
C17_EmptyTickNoOp ==
    [][(Tick /\ temp_buffer = <<>>) =>
          UNCHANGED <<temp_buffer, ringVars, txt_raw_display, saveVars>>]_vars

\* a tick has found nothing pending, after ticks that took events, with a
\* text on the display and a log that holds records
C17_Witness ==
    /\ drained = <<>>
    /\ taken # <<>>
    /\ temp_buffer = <<>>
    /\ txt_raw_display # <<>>
    /\ is_saving
    /\ Records(disk[save_file]) # <<>>

(***************************************************************************)
(* Further properties of the ring buffers under SpecRing.                  *)
(***************************************************************************)
\* C18: the ring buffers are a FIFO window.  After any ticks, ring buffer c
\* is the last plot_len elements of plot_len zeros followed by the value of
\* channel c of every sample taken, in arrival order: the oldest values are
\* evicted first, and place i of the four buffers belongs to one sample.
C18_RingsFifoWindow ==
    /\ data_ch1 = RingOf(1)
    /\ data_ch2 = RingOf(2)
    /\ data_ch3 = RingOf(3)
    /\ data_ch4 = RingOf(4)
    /\ \A i \in 1..plot_len :
          LET k == Len(taken) - plot_len + i
          IN  IF k >= 1
              THEN <<data_ch1[i], data_ch2[i], data_ch3[i], data_ch4[i]>> = taken[k][1]
              ELSE <<data_ch1[i], data_ch2[i], data_ch3[i], data_ch4[i]>>
                      = <<Zero, Zero, Zero, Zero>>

\* a first tick took fewer than plot_len samples, so that zeros remain, and
\* a second tick evicted the last of them and the oldest sample with them
C18_Witness ==
    /\ Len(taken) = plot_len + 1
    /\ Len(drained) = 2
    /\ drained[1] # drained[2]
    /\ data_ch3[plot_len] # data_ch3[plot_len - 1]
    /\ data_ch3[1] # Zero

(***************************************************************************)
(* SpecBlocks: the acquisition thread on a wire that carries 40-byte       *)
(* blocks, each beginning with the sentinel, with sentinel bytes inside    *)
(* the payloads, read in chunks of every length.                           *)
(***************************************************************************)
\* a block without a sentinel in its payload, a block of sentinel bytes
\* only, and a block with a sentinel in the middle and at the end of its
\* payload
Blocks ==
    {FrameOf(1), FrameOf(SENTINEL),
     <<SENTINEL>> \o Rep(0, 19) \o <<SENTINEL>> \o Rep(2, 18) \o <<SENTINEL>>}

RECURSIVE Concat(_)
Concat(ss) == IF ss = <<>> THEN <<>> ELSE Head(ss) \o Concat(Tail(ss))

\* what the wire carries: MaxBlocks blocks
WireStreams == {Concat(f) : f \in [1..MaxBlocks -> Blocks]}

BlockLens == {1, FRAME_LEN - 1, FRAME_LEN + 1, 2 * FRAME_LEN}

\* a read takes the next n bytes of a wire that has carried stream so far
NextBlocks ==
    \/ toggle_serial_on("COM1", TRUE)
    \/ run_while
    \/ \E w \in WireStreams, n \in BlockLens :
          /\ Len(cuts) < MaxBlockReads
          /\ Len(stream) + n <= Len(w)
          /\ SubSeq(w, 1, Len(stream)) = stream
          /\ run_read(SubSeq(w, Len(stream) + 1, Len(stream) + n))
    \/ run_inner
    \/ run_divide
    \/ run_emit

SpecBlocks == Init /\ [][NextBlocks]_vars

\* the whole blocks of a stream, in order
BlocksOf(st) ==
    [i \in 1..(Len(st) \div FRAME_LEN) |->
        SubSeq(st, FRAME_LEN * (i - 1) + 1, FRAME_LEN * i)]

\* C19: synchronization is retained.  On a stream of 40-byte blocks that
\* each begin with the sentinel, read from an empty buffer in chunks of any
\* lengths, the frames cut and emitted are the whole blocks of the stream
\* in order, sentinel bytes inside the payloads notwithstanding, and the
\* buffer holds the bytes of the block that is not whole yet: none is
\* dropped.
C19_SyncRetained ==
    BetweenReads =>
        /\ frames = BlocksOf(stream)
        /\ NewRaw(emitted) = BlocksOf(stream)
        /\ buffer = SubSeq(stream, FRAME_LEN * Len(frames) + 1, Len(stream))

\* three blocks have arrived in four reads that cut every block in two, the
\* second block being the one with sentinels in its payload
C19_Witness ==
    /\ BetweenReads
    /\ Len(stream) = MaxBlocks * FRAME_LEN
    /\ Len(cuts) = MaxBlockReads
    /\ cuts[1] = FRAME_LEN - 1
    /\ Len(frames) = MaxBlocks
    /\ frames[1] # frames[2]
    /\ frames[2][21] = SENTINEL

(***************************************************************************)
(* The accounting of the bytes of the resync buffer, under SpecSync.       *)
(***************************************************************************)
\* the number of bytes deleted so far
EndOfPieces ==
    IF pieces = <<>> THEN 0
    ELSE pieces[Len(pieces)].at + Len(pieces[Len(pieces)].bytes)

\* the pieces that are frames, in order
FramePieces ==
    LET fs == SelectSeq(pieces, LAMBDA p : Len(p.bytes) = FRAME_LEN)
    IN  [i \in 1..Len(fs) |-> fs[i].bytes]

\* C20: byte accounting of the resync buffer.  The stream read so far is,
\* in order, the pieces deleted from the buffer, each beginning where the
\* one before it ends, followed by the buffer; every piece is either a
\* frame, 40 bytes that begin with the sentinel and were emitted, or one
\* dropped byte that is no sentinel; and once the inner loop has run after
\* a read the buffer holds fewer than 40 bytes.
C20_ByteAccounting ==
    /\ \A i \in 1..Len(pieces) :
          LET p == pieces[i].bytes
              at == pieces[i].at
          IN  /\ at = IF i = 1 THEN 0
                      ELSE pieces[i - 1].at + Len(pieces[i - 1].bytes)
              /\ at + Len(p) <= Len(stream)
              /\ p = SubSeq(stream, at + 1, at + Len(p))
              /\ \/ Len(p) = FRAME_LEN /\ p[1] = SENTINEL
                 \/ Len(p) = 1 /\ p[1] # SENTINEL
    /\ buffer = SubSeq(stream, EndOfPieces + 1, Len(stream))
    /\ FramePieces = NewRaw(emitted)
    /\ BetweenReads => Len(buffer) < FRAME_LEN

\* bytes were dropped one by one, a frame was cut right after them and
\* another after it, and bytes are left in the buffer
C20_Witness ==
    /\ BetweenReads
    /\ buffer # <<>>
    /\ Len(emitted) >= 2
    /\ Len(pieces) >= 4
    /\ Len(pieces[1].bytes) = 1
    /\ Len(pieces[2].bytes) = 1
    /\ Len(pieces[Len(pieces)].bytes) = FRAME_LEN
    /\ \E i \in 2..(Len(pieces) - 1) :
          /\ Len(pieces[i].bytes) = 1
          /\ Len(pieces[i + 1].bytes) = FRAME_LEN

====
